---- MODULE Spec2Model ----
(***************************************************************************)
(* Model of the quiz game.  scoring.py: the per-session ScoreTracker and    *)
(* the two persisted stores, the bounded leaderboard (data/scores.json)    *)
(* and the append-only history (data/history.json).  questions.py: the     *)
(* question bank (data/questions.json), its filter and the random pick.    *)
(* main.py: the menu and the three session modes (normal, timed,           *)
(* challenge), which read the player's input lines.                        *)
(*                                                                         *)
(* Conventions                                                             *)
(*  - A Python exception is the value of the variable raised; "none" means *)
(*    that no call has raised.  An uncaught exception ends the program, so *)
(*    every operation is guarded by raised = "none".                       *)
(*  - A Python float that is a quotient of two integers is kept as the     *)
(*    reduced fraction [num, den].                                         *)
(*  - round(x, 1) is kept in tenths: 333 stands for 33.3, 1000 for 100.0.  *)
(*  - A line the player types is the sequence of its characters.           *)
(***************************************************************************)
EXTENDS Integers, Sequences, FiniteSets, Bags, TLC

VARIABLES
    correct, total, points, streak, best_streak, \* the session's ScoreTracker
    details,      \* the breakdown the last record call returned
    calls,        \* the record calls made so far, in order
    pct,          \* the value the last read of percentage returned
    SCORES_FILE,  \* data/scores.json: [exists, text]
    HISTORY_FILE, \* data/history.json: [exists, text]
    data_dir,     \* whether the directory data/ exists
    submitted,    \* the entries save_high_score has appended so far (a bag)
    appended,     \* the entries save_game_history has appended so far
    loaded,       \* the list the last load_* or get_top_scores call returned
    last_op,      \* the name of the last operation called
    raised,       \* the exception that ended the program, or "none"
    DATA_FILE,    \* data/questions.json: [exists, questions]
    questions,    \* the list load_questions returned last
    pool,         \* the list filter_questions returned last
    selected,     \* the list pick_questions returned last
    call_args,    \* the arguments of the last questions.py call
    pc,           \* where main.py waits for input: "menu", "question",
                  \* "name"; "save_game_history" between the two saves;
                  \* "exit" after Quit
    mode,         \* the running session: "normal", "timed", "challenge"
    lives,        \* play_challenge: lives left
    cat_label,    \* the category label the session saves
    asked,        \* the questions asked in the running session, in order,
                  \* each with the line typed and the seconds it took
    name_line,    \* the line typed at the name prompt
    prompts,      \* the get_choice calls of the last step: the line typed,
                  \* max_val, default and the value returned
    started,      \* the number of sessions main has started
    finished      \* the sessions that ran to completion: the name typed
                  \* and the tracker's final values

tracker == <<correct, total, points, streak, best_streak>>
files == <<SCORES_FILE, HISTORY_FILE, data_dir>>
bank == <<DATA_FILE, questions, pool, selected, call_args>>
session == <<pc, mode, lives, cat_label, asked, name_line, finished>>
quiz == <<bank, session, prompts, started>>
vars == <<correct, total, points, streak, best_streak, details, calls, pct,
          SCORES_FILE, HISTORY_FILE, data_dir, submitted, appended, loaded,
          last_op, raised, DATA_FILE, questions, pool, selected, call_args,
          pc, mode, lives, cat_label, asked, name_line, finished, prompts,
          started>>

----------------------------------------------------------------------------
(* Bounds *)

\* record calls in one session
MaxCalls == 5

\* record calls in one session of the streak specification
MaxStreakCalls == 7

\* the known difficulties and one unrecognized string
Difficulties == {"easy", "medium", "hard", "expert"}

StreakDifficulties == {"easy", "hard"}

\* save_high_score calls in the leaderboard specification
MaxSaves == 11

\* save_game_history calls in the history specification
MaxAppends == 11

\* record calls in the percentage specification
MaxPctCalls == 3

\* saves to each store in the missing-file specification
MaxFirstSaves == 2

\* one value of datetime.now().strftime("%Y-%m-%d %H:%M"), and a later one
Stamp == "2026-01-01 10:00"

LaterStamp == "2026-01-01 10:05"

Args(name, score, tot, category, pts, best) ==
    [name |-> name, score |-> score, total |-> tot, category |-> category,
     points |-> pts, best_streak |-> best]

\* arguments of save_high_score in the leaderboard specification: equal
\* points with different percentages, the higher percentage with the lower
\* correct count; more points with a lower percentage; and total = 0
BoardArgs ==
    { Args("ann", 1, 1, "Science", 30, 1),
      Args("bob", 2, 4, "All Categories", 30, 1),
      Args("cat", 2, 5, "History", 45, 2),
      Args("dan", 0, 0, "Science", 0, 0) }

\* arguments of save_game_history in the history specification
HistoryArgs ==
    { Args("ann", 1, 3, "Science", 30, 1),
      Args("bob", 0, 0, "All Categories", 0, 0) }

\* (score, total) pairs with total >= 0 in the percentage specification
PctArgs ==
    { Args("ann", sc, t, "Science", 10 * sc, sc) : sc \in 0..3, t \in 0..3 }

\* entries of data/questions.json in the question-bank specification
MaxBank == 2

\* An entry of data/questions.json is a function from its keys to their
\* values: text a string, choices a list of strings, answer an integer.
RawEntry(text, choices, answer, category, difficulty) ==
    [text |-> text, choices |-> choices, answer |-> answer,
     category |-> category, difficulty |-> difficulty]

Without(entry, key) == [k \in DOMAIN entry \ {key} |-> entry[k]]

\* well-formed entries, then one of each malformation: text missing or
\* empty, choices missing or empty, answer missing, below 0, or equal to
\* len(choices); and an entry with a single choice
RawEntries ==
    { RawEntry("q1", <<"a", "b">>, 0, "Science", "easy"),
      RawEntry("q2", <<"a", "b">>, 1, "", "hard"),
      Without(Without(RawEntry("q3", <<"a", "b", "c">>, 2, "", ""),
                      "category"), "difficulty"),
      RawEntry("q4", <<"a">>, 0, "all", "expert"),
      Without(RawEntry("", <<"a", "b">>, 0, "Science", "easy"), "text"),
      RawEntry("", <<"a", "b">>, 0, "Science", "easy"),
      Without(RawEntry("q7", <<>>, 0, "Science", "easy"), "choices"),
      RawEntry("q8", <<>>, 0, "Science", "easy"),
      Without(RawEntry("q9", <<"a", "b">>, 0, "Science", "easy"), "answer"),
      RawEntry("q10", <<"a", "b">>, -1, "Science", "easy"),
      RawEntry("q11", <<"a", "b">>, 2, "Science", "easy") }

\* an optional argument: None, or a string
None == {}

Some(str) == {str}

\* category and difficulty arguments of filter_questions
CategoryArgs == {None, Some(""), Some("all"), Some("Science")}

DifficultyArgs == {None, Some(""), Some("all"), Some("easy"), Some("medium")}

\* count arguments of pick_questions
PickCounts == 0..4

----------------------------------------------------------------------------
(* Python helpers *)

Min(a, b) == IF a < b THEN a ELSE b

Max(a, b) == IF a > b THEN a ELSE b

Ok(v) == [raised |-> "none", value |-> v]

Raise(e) == [raised |-> e, value |-> 0]

\* d[k]: KeyError when the key is absent.
DictSubscript(d, k, default) ==
    IF k \in DOMAIN d THEN Ok(d[k]) ELSE Raise("KeyError")

\* d.get(k, default)
DictGet(d, k, default) ==
    IF k \in DOMAIN d THEN Ok(d[k]) ELSE Ok(default)

RECURSIVE GCD(_, _)
GCD(a, b) == IF b = 0 THEN a ELSE GCD(b, a % b)

Frac(n, d) == LET g == GCD(n, d) IN [num |-> n \div g, den |-> d \div g]

\* a / b on integers: ZeroDivisionError when b = 0.
TrueDiv(a, b) == IF b = 0 THEN Raise("ZeroDivisionError") ELSE Ok(Frac(a, b))

\* f * k for a fraction f and an integer k
FracTimes(f, k) == Frac(f.num * k, f.den)

----------------------------------------------------------------------------
(* scoring.py: ScoreTracker *)

DIFFICULTY_MULTIPLIER_FROM_ZERO ==
    [d \in {"easy", "medium", "hard"} |->
        CASE d = "easy" -> 0 [] d = "medium" -> 1 [] d = "hard" -> 2]

DIFFICULTY_MULTIPLIER ==
    [d \in {"easy", "medium", "hard"} |->
        CASE d = "easy" -> 1 [] d = "medium" -> 2 [] d = "hard" -> 3]

NoDetails == [streak_bonus |-> 0, difficulty_bonus |-> 0, points_earned |-> 0]

\* ScoreTracker.__init__
TrackerInit ==
    /\ correct = 0
    /\ total = 0
    /\ points = 0
    /\ streak = 0
    /\ best_streak = 0

StreakBonusUncapped(s) == (s - 1) * 5

StreakBonusFromStreak(s) == Min(s, 5) * 5

\* streak_bonus = min(self.streak - 1, 5) * 5, self.streak already incremented
StreakBonus(s) == Min(s - 1, 5) * 5

\* self.best_streak after a correct answer that raised the streak to s
BestStreakNoUpdate(s, best) == best

BestStreakIsStreak(s, best) == s

BestStreakAfter(s, best) == IF s > best THEN s ELSE best

\* self.streak after a wrong answer
StreakKept(s) == s

StreakAfterWrong(s) == 0

\* ScoreTracker.record(is_correct, difficulty)
record(is_correct, difficulty) ==
    /\ raised = "none"
    /\ total' = total + 1
    /\ calls' = Append(calls, [is_correct |-> is_correct, difficulty |-> difficulty])
    /\ last_op' = "record"
    /\ IF is_correct
       THEN LET s == streak + 1
                base == 10
                diff_mult == DictGet(DIFFICULTY_MULTIPLIER, difficulty, 1)
            IN /\ correct' = correct + 1
               /\ streak' = s
               /\ best_streak' = BestStreakAfter(s, best_streak)
               /\ IF diff_mult.raised # "none"
                  THEN /\ raised' = diff_mult.raised
                       /\ UNCHANGED <<points, details>>
                  ELSE LET diff_bonus == base * (diff_mult.value - 1)
                           streak_bonus == StreakBonus(s)
                           earned == base + diff_bonus + streak_bonus
                       IN /\ points' = points + earned
                          /\ details' = [streak_bonus |-> streak_bonus,
                                         difficulty_bonus |-> diff_bonus,
                                         points_earned |-> earned]
                          /\ UNCHANGED raised
       ELSE /\ streak' = StreakAfterWrong(streak)
            /\ details' = NoDetails
            /\ UNCHANGED <<correct, points, best_streak, raised>>
    /\ UNCHANGED <<pct, files, submitted, appended, loaded>>

\* ScoreTracker.percentage (property), on the fields correct = c, total = t
percentage(c, t) ==
    IF t = 0 THEN Ok(Frac(0, 1))
    ELSE LET q == TrueDiv(c, t)
         IN IF q.raised # "none" THEN q ELSE Ok(FracTimes(q.value, 100))

\* a read of tracker.percentage
read_percentage ==
    /\ raised = "none"
    /\ LET r == percentage(correct, total)
       IN IF r.raised # "none"
          THEN /\ raised' = r.raised
               /\ UNCHANGED pct
          ELSE /\ pct' = r.value
               /\ UNCHANGED raised
    /\ last_op' = "percentage"
    /\ UNCHANGED <<tracker, details, calls, files, submitted, appended, loaded>>

----------------------------------------------------------------------------
(* Files and JSON *)

Missing == [exists |-> FALSE, text |-> <<>>]

ENTRY_KEYS == <<"name", "score", "total", "percentage", "points",
                "best_streak", "category", "date">>

\* json.dump of one dict: its items, in the dict's insertion order
JsonObject(e) == [i \in 1..Len(ENTRY_KEYS) |-> <<ENTRY_KEYS[i], e[ENTRY_KEYS[i]]>>]

\* json.dump(list, f): the text of a list of dicts
JsonDump(list) == [i \in 1..Len(list) |-> JsonObject(list[i])]

\* json.load of one object: a dict from its items
JsonDict(items) ==
    [k \in {items[i][1] : i \in 1..Len(items)} |->
        LET i == CHOOSE j \in 1..Len(items) : items[j][1] = k IN items[i][2]]

\* json.load(f): the list of dicts of a text
JsonLoad(text) == [i \in 1..Len(text) |-> JsonDict(text[i])]

EmptyStore == [exists |-> TRUE, text |-> JsonDump(<<>>)]

\* with open(path, "r") as f: return json.load(f)
open_json(file) ==
    IF file.exists THEN Ok(JsonLoad(file.text)) ELSE Raise("FileNotFoundError")

load_json_unchecked(file) == open_json(file)

\* the body load_high_scores and load_game_history share, on the state of
\* the file each reads
load_json(file) ==
    IF ~file.exists THEN Ok(<<>>) ELSE open_json(file)

load_high_scores_value == load_json(SCORES_FILE)

load_game_history_value == load_json(HISTORY_FILE)

\* path.parent.mkdir(parents=True, exist_ok=True): the directory exists after
Mkdir(dir) == TRUE

\* open(path, "w") and json.dump(list, f, indent=2), in a directory state dir
WriteJson(list, dir) ==
    IF dir THEN Ok([exists |-> TRUE, text |-> JsonDump(list)])
    ELSE Raise("FileNotFoundError")

----------------------------------------------------------------------------
(* scoring.py: the stored entry *)

\* round(x, 1) of the fraction x >= 0, in tenths; a tie goes to the even
\* digit.  A tie needs a total that is a multiple of 16, so none arises for
\* the totals drawn here and the float's own rounding error plays no part.
Round1(x) ==
    LET n == x.num * 10
        q == n \div x.den
        r == n % x.den
    IN IF 2 * r < x.den THEN q
       ELSE IF 2 * r > x.den THEN q + 1
       ELSE IF q % 2 = 0 THEN q ELSE q + 1

\* round((score / total) * 100, 1) without the "if total else 0"
entry_percentage_unguarded(score, tot) ==
    LET q == TrueDiv(score, tot)
    IN IF q.raised # "none" THEN q ELSE Ok(Round1(FracTimes(q.value, 100)))

\* round((score / total) * 100, 1) if total else 0
entry_percentage(score, tot) ==
    IF tot # 0
    THEN LET q == TrueDiv(score, tot)
         IN IF q.raised # "none" THEN q ELSE Ok(Round1(FracTimes(q.value, 100)))
    ELSE Ok(0)

\* the dict both save functions append
Entry(name, score, tot, category, pts, best, percent, now) ==
    [name |-> name, score |-> score, total |-> tot, percentage |-> percent,
     points |-> pts, best_streak |-> best, category |-> category, date |-> now]

ListPrepend(list, e) == <<e>> \o list

\* list.append(e)
ListAppend(list, e) == Append(list, e)

----------------------------------------------------------------------------
(* scoring.py: the leaderboard *)

SortKeyByScore(s) == <<DictGet(s, "points", 0).value, s.score>>

\* key=lambda s: (s.get("points", 0), s["percentage"])
SortKey(s) == <<DictGet(s, "points", 0).value, s.percentage>>

TupleLessOrEqual(a, b) == a[1] < b[1] \/ (a[1] = b[1] /\ a[2] <= b[2])

\* tuple comparison a < b
TupleLess(a, b) == a[1] < b[1] \/ (a[1] = b[1] /\ a[2] < b[2])

RECURSIVE InsertDescending(_, _)
\* one step of a stable descending sort: e goes before the first element
\* whose key is less than its own, so behind every element of equal key
InsertDescending(list, e) ==
    IF list = <<>> THEN <<e>>
    ELSE IF TupleLess(SortKey(Head(list)), SortKey(e)) THEN <<e>> \o list
    ELSE <<Head(list)>> \o InsertDescending(Tail(list), e)

RECURSIVE SortReverse(_)
\* list.sort(key=SortKey, reverse=True): stable, elements of equal key keep
\* their order
SortReverse(list) ==
    IF list = <<>> THEN <<>>
    ELSE InsertDescending(SortReverse(SubSeq(list, 1, Len(list) - 1)),
                          list[Len(list)])

SliceAll(list, n) == list

\* list[:n] for n >= 0
SliceTo(list, n) == SubSeq(list, 1, Min(n, Len(list)))

\* save_high_score(name, score, total, category, points, best_streak), with
\* now the value of datetime.now().strftime(...).  Each value the function
\* computes is bound once, as a Python local is.
save_high_score(name, score, tot, category, pts, best, now) ==
    /\ raised = "none"
    /\ last_op' = "save_high_score"
    /\ \E scores \in {load_high_scores_value},
          percent \in {entry_percentage(score, tot)} :
          IF scores.raised # "none" \/ percent.raised # "none"
          THEN /\ raised' = (IF scores.raised # "none" THEN scores.raised
                             ELSE percent.raised)
               /\ UNCHANGED <<SCORES_FILE, data_dir, submitted>>
          ELSE \E e \in {Entry(name, score, tot, category, pts, best,
                                percent.value, now)} :
               \E kept \in {SliceTo(SortReverse(ListAppend(scores.value, e)), 10)},
                  dir \in {Mkdir(data_dir)} :
               \E written \in {WriteJson(kept, dir)} :
                  /\ submitted' = submitted (+) SetToBag({e})
                  /\ data_dir' = dir
                  /\ IF written.raised # "none"
                     THEN /\ raised' = written.raised
                          /\ UNCHANGED SCORES_FILE
                     ELSE /\ SCORES_FILE' = written.value
                          /\ UNCHANGED raised
    /\ UNCHANGED <<tracker, details, calls, pct, HISTORY_FILE, appended, loaded>>

\* load_high_scores()
load_high_scores ==
    /\ raised = "none"
    /\ last_op' = "load_high_scores"
    /\ LET scores == load_high_scores_value
       IN IF scores.raised # "none"
          THEN /\ raised' = scores.raised
               /\ UNCHANGED loaded
          ELSE /\ loaded' = scores.value
               /\ UNCHANGED raised
    /\ UNCHANGED <<tracker, details, calls, pct, files, submitted, appended>>

\* get_top_scores(n)
get_top_scores(n) ==
    /\ raised = "none"
    /\ last_op' = "get_top_scores"
    /\ LET scores == load_high_scores_value
       IN IF scores.raised # "none"
          THEN /\ raised' = scores.raised
               /\ UNCHANGED loaded
          ELSE /\ loaded' = SliceTo(scores.value, n)
               /\ UNCHANGED raised
    /\ UNCHANGED <<tracker, details, calls, pct, files, submitted, appended>>

----------------------------------------------------------------------------
(* scoring.py: the history *)

\* save_game_history(name, score, total, category, points, best_streak)
save_game_history(name, score, tot, category, pts, best, now) ==
    /\ raised = "none"
    /\ last_op' = "save_game_history"
    /\ \E history \in {load_game_history_value},
          percent \in {entry_percentage(score, tot)} :
          IF history.raised # "none" \/ percent.raised # "none"
          THEN /\ raised' = (IF history.raised # "none" THEN history.raised
                             ELSE percent.raised)
               /\ UNCHANGED <<HISTORY_FILE, data_dir, appended>>
          ELSE \E e \in {Entry(name, score, tot, category, pts, best,
                                percent.value, now)},
                  dir \in {Mkdir(data_dir)} :
               \E written \in {WriteJson(ListAppend(history.value, e), dir)} :
                  /\ appended' = Append(appended, e)
                  /\ data_dir' = dir
                  /\ IF written.raised # "none"
                     THEN /\ raised' = written.raised
                          /\ UNCHANGED HISTORY_FILE
                     ELSE /\ HISTORY_FILE' = written.value
                          /\ UNCHANGED raised
    /\ UNCHANGED <<tracker, details, calls, pct, SCORES_FILE, submitted, loaded>>

\* load_game_history()
load_game_history ==
    /\ raised = "none"
    /\ last_op' = "load_game_history"
    /\ LET history == load_game_history_value
       IN IF history.raised # "none"
          THEN /\ raised' = history.raised
               /\ UNCHANGED loaded
          ELSE /\ loaded' = history.value
               /\ UNCHANGED raised
    /\ UNCHANGED <<tracker, details, calls, pct, files, submitted, appended>>

----------------------------------------------------------------------------
(* questions.py *)

NoBank == [exists |-> FALSE, questions |-> <<>>]

BankFile(entries) == [exists |-> TRUE, questions |-> entries]

\* q.get("text") and q.get("choices") and "answer" in q, with answer tested
\* for truth like the other two
WellFormedTruthyAnswer(q) ==
    /\ "text" \in DOMAIN q /\ q.text # ""
    /\ "choices" \in DOMAIN q /\ q.choices # <<>>
    /\ "answer" \in DOMAIN q /\ q.answer # 0

\* q.get("text") and q.get("choices") and "answer" in q
WellFormed(q) ==
    /\ "text" \in DOMAIN q /\ q.text # ""
    /\ "choices" \in DOMAIN q /\ q.choices # <<>>
    /\ "answer" \in DOMAIN q

\* 0 <= q["answer"] < len(q["choices"])
AnswerInRange(q) == 0 <= q.answer /\ q.answer < Len(q.choices)

\* Question(**q); id stands for the identity of the object, the place of its
\* entry in the file
Question(q, id) ==
    [id |-> id, text |-> q.text, choices |-> q.choices, answer |-> q.answer,
     category |-> DictGet(q, "category", "General").value,
     difficulty |-> DictGet(q, "difficulty", "medium").value]

check_one_based(q, choice_index) == choice_index + 1 = q.answer

\* Question.check(choice_index)
check(q, choice_index) == choice_index = q.answer

RECURSIVE LoadFrom(_, _)
\* the loop of load_questions over data["questions"], from entry i on
LoadFrom(data, i) ==
    IF i > Len(data) THEN <<>>
    ELSE IF ~WellFormed(data[i]) THEN LoadFrom(data, i + 1)
    ELSE IF ~AnswerInRange(data[i]) THEN LoadFrom(data, i + 1)
    ELSE <<Question(data[i], i)>> \o LoadFrom(data, i + 1)

load_questions_fallback(file) ==
    IF ~file.exists THEN Ok(<<>>)
    ELSE Ok(LoadFrom(file.questions, 1))

\* load_questions(), on the state of data/questions.json
load_questions_value(file) ==
    IF ~file.exists THEN Raise("FileNotFoundError")
    ELSE Ok(LoadFrom(file.questions, 1))

\* get_categories(questions): the set of categories; sorted() orders it
get_categories_set(qs) == {qs[i].category : i \in 1..Len(qs)}

\* get_difficulties()
get_difficulties == <<"easy", "medium", "hard">>

\* the truth value of an optional string: None and "" are false
Truthy(opt) == \E str \in opt : str # ""


RECURSIVE Select(_, _, _)
\* [q for q in result if q.<field> == value]
Select(list, field, opt) ==
    IF list = <<>> THEN <<>>
    ELSE IF Head(list)[field] \in opt
         THEN <<Head(list)>> \o Select(Tail(list), field, opt)
         ELSE Select(Tail(list), field, opt)

\* "all" handled as no filter
ApplyFilterAllAware(list, field, opt) ==
    IF Truthy(opt) /\ opt # Some("all") THEN Select(list, field, opt) ELSE list

\* if <arg>: result = [q for q in result if q.<field> == <arg>]
ApplyFilter(list, field, opt) ==
    IF Truthy(opt) THEN Select(list, field, opt) ELSE list

\* filter_questions(questions, category, difficulty)
filter_questions_value(qs, category, difficulty) ==
    ApplyFilter(ApplyFilter(qs, "category", category), "difficulty", difficulty)

\* the sequences of k elements of population at pairwise distinct places
Samples(population, k) ==
    LET places == 1..Len(population)
        draws == {p \in [1..k -> places] :
                     \A i, j \in 1..k : i # j => p[i] # p[j]}
    IN {[i \in 1..k |-> population[p[i]]] : p \in draws}

\* random.sample(population, k): the results it may give
sample(population, k) ==
    IF k < 0 \/ k > Len(population) THEN Raise("ValueError")
    ELSE Ok(Samples(population, k))

PickCountUnclamped(count, n) == count

\* count = min(count, len(questions))
PickCount(count, n) == Min(count, n)

\* pick_questions(questions, count): the results it may give
pick_questions_value(qs, count) == sample(qs, PickCount(count, Len(qs)))

\* a call of load_questions()
load_questions ==
    /\ raised = "none"
    /\ last_op' = "load_questions"
    /\ call_args' = [none |-> TRUE]
    /\ \E r \in {load_questions_value(DATA_FILE)} :
          IF r.raised # "none"
          THEN /\ raised' = r.raised
               /\ UNCHANGED questions
          ELSE /\ questions' = r.value
               /\ UNCHANGED raised
    /\ UNCHANGED <<DATA_FILE, pool, selected>>

\* a call of filter_questions(questions, category, difficulty)
filter_questions(category, difficulty) ==
    /\ raised = "none"
    /\ last_op' = "filter_questions"
    /\ call_args' = [questions |-> questions, category |-> category,
                     difficulty |-> difficulty]
    /\ pool' = filter_questions_value(questions, category, difficulty)
    /\ UNCHANGED <<DATA_FILE, questions, selected, raised>>

\* a call of pick_questions(pool, count)
pick_questions(count) ==
    /\ raised = "none"
    /\ last_op' = "pick_questions"
    /\ call_args' = [questions |-> pool, count |-> count]
    /\ \E r \in {pick_questions_value(pool, count)} :
          IF r.raised # "none"
          THEN /\ raised' = r.raised
               /\ UNCHANGED selected
          ELSE /\ \E picked \in r.value : selected' = picked
               /\ UNCHANGED raised
    /\ UNCHANGED <<DATA_FILE, questions, pool>>

----------------------------------------------------------------------------
(* Specifications *)

\* no call made yet
NoCalls ==
    /\ TrackerInit
    /\ details = NoDetails
    /\ calls = <<>>
    /\ pct = Frac(0, 1)
    /\ submitted = EmptyBag
    /\ appended = <<>>
    /\ loaded = <<>>
    /\ last_op = "none"
    /\ raised = "none"
    /\ questions = <<>>
    /\ pool = <<>>
    /\ selected = <<>>
    /\ call_args = [none |-> TRUE]
    /\ pc = "menu"
    /\ mode = "none"
    /\ lives = 0
    /\ cat_label = ""
    /\ asked = <<>>
    /\ name_line = <<>>
    /\ finished = <<>>
    /\ prompts = <<>>
    /\ started = 0

\* the question bank the scoring specifications run beside
OneQuestion == <<RawEntry("q1", <<"a", "b">>, 0, "Science", "easy")>>

\* a fresh installation: neither store has been written
Init ==
    /\ NoCalls
    /\ data_dir = FALSE
    /\ SCORES_FILE = Missing
    /\ HISTORY_FILE = Missing
    /\ DATA_FILE = BankFile(OneQuestion)

\* each store is missing or holds the empty list
InitStores ==
    /\ NoCalls
    /\ data_dir \in BOOLEAN
    /\ SCORES_FILE \in (IF data_dir THEN {Missing, EmptyStore} ELSE {Missing})
    /\ HISTORY_FILE \in (IF data_dir THEN {Missing, EmptyStore} ELSE {Missing})
    /\ DATA_FILE = BankFile(OneQuestion)

\* one session's tracker: any sequence of record calls
Next ==
    \E is_correct \in BOOLEAN, difficulty \in Difficulties :
        /\ Len(calls) < MaxCalls
        /\ record(is_correct, difficulty)
        /\ UNCHANGED quiz

Spec == Init /\ [][Next]_vars

\* any sequence of save_high_score calls
NextBoard ==
    \E a \in BoardArgs :
        /\ BagCardinality(submitted) < MaxSaves
        /\ save_high_score(a.name, a.score, a.total, a.category, a.points,
                           a.best_streak, Stamp)
        /\ UNCHANGED quiz

SpecBoard == InitStores /\ [][NextBoard]_vars

\* any sequence of save_game_history calls
NextHistory ==
    \E a \in HistoryArgs :
        /\ Len(appended) < MaxAppends
        /\ save_game_history(a.name, a.score, a.total, a.category, a.points,
                             a.best_streak, Stamp)
        /\ UNCHANGED quiz

SpecHistory == InitStores /\ [][NextHistory]_vars

\* a session's tracker with reads of percentage, and the first save to each
\* store with any (score, total) arguments
NextPercent ==
    \/ \E is_correct \in BOOLEAN :
          /\ Len(calls) < MaxPctCalls
          /\ record(is_correct, "medium")
          /\ UNCHANGED quiz
    \/ read_percentage /\ UNCHANGED quiz
    \/ \E a \in PctArgs :
          /\ SCORES_FILE.text = <<>>
          /\ save_high_score(a.name, a.score, a.total, a.category, a.points,
                             a.best_streak, Stamp)
          /\ UNCHANGED quiz
    \/ \E a \in PctArgs :
          /\ HISTORY_FILE.text = <<>>
          /\ save_game_history(a.name, a.score, a.total, a.category, a.points,
                               a.best_streak, Stamp)
          /\ UNCHANGED quiz

SpecPercent == InitStores /\ [][NextPercent]_vars

\* reads and first saves of stores that may be missing
NextMissing ==
    \/ load_high_scores /\ UNCHANGED quiz
    \/ \E n \in {5, 10, 100} : get_top_scores(n) /\ UNCHANGED quiz
    \/ load_game_history /\ UNCHANGED quiz
    \/ \E a \in HistoryArgs, now \in {Stamp, LaterStamp} :
          /\ Len(SCORES_FILE.text) < MaxFirstSaves
          /\ save_high_score(a.name, a.score, a.total, a.category, a.points,
                             a.best_streak, now)
          /\ UNCHANGED quiz
    \/ \E a \in HistoryArgs, now \in {Stamp, LaterStamp} :
          /\ Len(HISTORY_FILE.text) < MaxFirstSaves
          /\ save_game_history(a.name, a.score, a.total, a.category, a.points,
                               a.best_streak, now)
          /\ UNCHANGED quiz

SpecMissing == InitStores /\ [][NextMissing]_vars

\* save_high_score calls in a run of tied scores
MaxTieSaves == 11

\* the players of the tied scores, one per save
TieNames ==
    <<"p01", "p02", "p03", "p04", "p05", "p06", "p07", "p08", "p09", "p10",
      "p11", "p12", "p13", "p14">>

\* the results they save: 1 of 2 with 10 points, 2 of 2 with 20 points
TieScores ==
    {[score |-> 1, total |-> 2, points |-> 10, best_streak |-> 1],
     [score |-> 2, total |-> 2, points |-> 20, best_streak |-> 2]}

\* any sequence of save_high_score calls by different players with one of
\* two results
NextTies ==
    \E n \in {BagCardinality(submitted)} :
    \E a \in TieScores :
        /\ n < MaxTieSaves
        /\ n < Len(TieNames)
        /\ save_high_score(TieNames[n + 1], a.score, a.total, "Science",
                           a.points, a.best_streak, Stamp)
        /\ UNCHANGED quiz

SpecTies == InitStores /\ [][NextTies]_vars

\* every list the file may hold, up to MaxBank entries
Banks ==
    UNION {[1..n -> RawEntries] : n \in 0..MaxBank}

\* the question store on any bank: load, filter, pick
InitQuestions ==
    /\ NoCalls
    /\ data_dir = TRUE
    /\ SCORES_FILE = Missing
    /\ HISTORY_FILE = Missing
    /\ DATA_FILE \in {BankFile(b) : b \in Banks}

scoring == <<tracker, details, calls, pct, files, submitted, appended, loaded>>

NextQuestions ==
    \/ load_questions /\ UNCHANGED <<scoring, session, prompts, started>>
    \/ \E category \in CategoryArgs, difficulty \in DifficultyArgs :
          /\ filter_questions(category, difficulty)
          /\ UNCHANGED <<scoring, session, prompts, started>>
    \/ \E count \in PickCounts :
          pick_questions(count) /\ UNCHANGED <<scoring, session, prompts, started>>

SpecQuestions == InitQuestions /\ [][NextQuestions]_vars

----------------------------------------------------------------------------
(* main.py: input lines and get_choice *)

\* sessions main starts
MaxSessions == 1

\* time_limit = 15 if timed else None
TimeLimit == 15

\* lives = 3
StartLives == 3

\* lines typed at a numbered prompt
ChoiceLines == {<<>>, <<"0">>, <<"1">>, <<" ", "2">>, <<"3">>, <<"x">>}

\* lines typed as the answer to a question
AnswerLines == {<<>>, <<"1">>, <<"2">>, <<"7">>, <<"x">>}

\* lines typed at the name prompt
NameLines == {<<>>, <<" ">>, <<" ", "b", " ">>}

\* seconds between the question and the answer, time.time() - start
Elapsed == {3, 15, 16}

Whitespace == {" ", "\t"}

Digits == <<"0", "1", "2", "3", "4", "5", "6", "7", "8", "9">>

RECURSIVE LStrip(_)
LStrip(line) ==
    IF line # <<>> /\ Head(line) \in Whitespace THEN LStrip(Tail(line))
    ELSE line

RECURSIVE RStrip(_)
RStrip(line) ==
    IF line # <<>> /\ line[Len(line)] \in Whitespace
    THEN RStrip(SubSeq(line, 1, Len(line) - 1))
    ELSE line

NoStrip(line) == line

\* str.strip()
Strip(line) == RStrip(LStrip(line))

DigitValue(c) == (CHOOSE k \in 1..Len(Digits) : Digits[k] = c) - 1

RECURSIVE DecimalValue(_)
DecimalValue(digits) ==
    IF digits = <<>> THEN 0
    ELSE DecimalValue(SubSeq(digits, 1, Len(digits) - 1)) * 10
            + DigitValue(digits[Len(digits)])

\* int(raw) of a str: surrounding whitespace, an optional sign, digits
int(raw) ==
    LET text == Strip(raw)
        signed == text # <<>> /\ Head(text) \in {"+", "-"}
        digits == IF signed THEN Tail(text) ELSE text
    IN IF \/ digits = <<>>
          \/ \E k \in 1..Len(digits) :
                \A d \in 1..Len(Digits) : digits[k] # Digits[d]
       THEN Raise("ValueError")
       ELSE IF signed /\ Head(text) = "-"
            THEN Ok(0 - DecimalValue(digits))
            ELSE Ok(DecimalValue(digits))

\* a get_choice call as it is logged in prompts
Prompted(raw, max_val, default, value) ==
    [raw |-> raw, max_val |-> max_val, default |-> default, value |-> value]

get_choice_no_default(raw, max_val, default) ==
    LET val == int(raw)
    IN IF val.raised = "none" /\ 1 <= val.value /\ val.value <= max_val
       THEN val.value
       ELSE 1

\* get_choice(prompt, max_val, default) when the player types raw
get_choice(raw, max_val, default) ==
    LET val == int(raw)
    IN IF val.raised = "none" /\ 1 <= val.value /\ val.value <= max_val
       THEN val.value
       ELSE IF default # None THEN CHOOSE d \in default : TRUE
            ELSE 1

\* the strings of the model in the order sorted() puts them
StrOrder == <<"", "General", "History", "Science", "all">>

RECURSIVE SortedFrom(_, _)
SortedFrom(order, set) ==
    IF order = <<>> THEN <<>>
    ELSE (IF Head(order) \in set THEN <<Head(order)>> ELSE <<>>)
            \o SortedFrom(Tail(order), set)

\* sorted(set of str)
sorted(set) == SortedFrom(StrOrder, set)

\* get_categories(questions)
get_categories(qs) == sorted(get_categories_set(qs))

\* category or "All Categories"
Or(opt, default) ==
    IF Truthy(opt) THEN CHOOSE str \in opt : TRUE ELSE default

\* random.shuffle(list): the orders it can leave the list in
Shuffles(list) ==
    {[k \in 1..Len(list) |-> list[p[k]]] :
        p \in {f \in [1..Len(list) -> 1..Len(list)] :
                  \A a, b \in 1..Len(list) : a # b => f[a] # f[b]}}

NeverEmpty(list) == FALSE

\* not pool
IsEmpty(list) == list = <<>>

AfterPassEarly(i, list) == IF i + 1 < Len(list) THEN "question" ELSE "name"

\* for i, q in enumerate(list, 1): after pass i the loop asks the next
\* question, or ends at the name prompt
AfterPass(i, list) == IF i < Len(list) THEN "question" ELSE "name"

TimedOutAtLimit(elapsed) == elapsed >= TimeLimit

\* elapsed > time_limit
TimedOut(elapsed) == elapsed > TimeLimit

----------------------------------------------------------------------------
(* main.py: sessions *)

\* tracker = ScoreTracker()
NewTracker ==
    /\ correct' = 0
    /\ total' = 0
    /\ points' = 0
    /\ streak' = 0
    /\ best_streak' = 0
    /\ details' = NoDetails
    /\ calls' = <<>>

\* play_quiz(timed) up to the first question: the category, difficulty and
\* count prompts
play_quiz(timed) ==
    /\ raised = "none"
    /\ pc = "menu"
    /\ last_op' = "play_quiz"
    /\ \E loadr \in {load_questions_value(DATA_FILE)} :
        IF loadr.raised # "none"
        THEN /\ raised' = loadr.raised
             /\ prompts' = <<>>
             /\ UNCHANGED <<tracker, details, calls, questions, pool,
                            selected, call_args, session>>
        ELSE
          \E cat_line, diff_line \in ChoiceLines :
          \E categories \in {get_categories(loadr.value)} :
          \E cat_idx \in {get_choice(cat_line, 1 + Len(categories), Some(1))},
             diff_idx \in {get_choice(diff_line, 3, Some(1))} :
          \E category \in {IF cat_idx = 1 THEN None
                           ELSE Some(categories[cat_idx - 1])},
             difficulty \in {Some(get_difficulties[diff_idx])} :
          \E filtered \in {filter_questions_value(loadr.value, category,
                                                  difficulty)} :
            IF IsEmpty(filtered)
            THEN /\ pc' = "menu"
                 /\ call_args' = [questions |-> loadr.value,
                                  category |-> category,
                                  difficulty |-> difficulty]
                 /\ prompts' = <<Prompted(cat_line, 1 + Len(categories),
                                          Some(1), cat_idx),
                                 Prompted(diff_line, 3, Some(1), diff_idx)>>
                 /\ UNCHANGED <<tracker, details, calls, questions, pool,
                                selected, mode, lives, cat_label, asked,
                                name_line, finished, raised>>
            ELSE
              \E count_line \in ChoiceLines :
              \E count \in {get_choice(count_line, Len(filtered),
                                       Some(Min(10, Len(filtered))))} :
              \E pickr \in {pick_questions_value(filtered, count)} :
                IF pickr.raised # "none"
                THEN /\ raised' = pickr.raised
                     /\ prompts' = <<>>
                     /\ UNCHANGED <<tracker, details, calls, questions, pool,
                                    selected, call_args, session>>
                ELSE
                  \E picked \in pickr.value :
                    /\ questions' = loadr.value
                    /\ pool' = filtered
                    /\ selected' = picked
                    /\ call_args' = [questions |-> loadr.value,
                                     category |-> category,
                                     difficulty |-> difficulty,
                                     count |-> count]
                    /\ prompts' =
                          <<Prompted(cat_line, 1 + Len(categories), Some(1),
                                     cat_idx),
                            Prompted(diff_line, 3, Some(1), diff_idx),
                            Prompted(count_line, Len(filtered),
                                     Some(Min(10, Len(filtered))), count)>>
                    /\ NewTracker
                    /\ mode' = (IF timed THEN "timed" ELSE "normal")
                    /\ cat_label' = Or(category, "All Categories")
                    /\ asked' = <<>>
                    /\ pc' = AfterPass(0, picked)
                    /\ UNCHANGED <<lives, name_line, finished, raised>>
    /\ UNCHANGED <<DATA_FILE, pct, files, submitted, appended, loaded>>

\* play_quiz: one pass of the quiz loop, the player answers selected[i]
play_quiz_answer ==
    /\ pc = "question"
    /\ mode \in {"normal", "timed"}
    /\ \E q \in {selected[Len(asked) + 1]},
          line \in AnswerLines,
          elapsed \in (IF mode = "timed" THEN Elapsed ELSE {0}) :
       \E choice_idx \in {get_choice(line, Len(q.choices), None) - 1} :
       \E is_correct \in {IF mode = "timed" /\ TimedOut(elapsed) THEN FALSE
                          ELSE check(q, choice_idx)} :
          /\ record(is_correct, q.difficulty)
          /\ prompts' = <<Prompted(line, Len(q.choices), None,
                                   choice_idx + 1)>>
          /\ asked' = Append(asked, [id |-> q.id, line |-> line,
                                     elapsed |-> elapsed,
                                     choice_idx |-> choice_idx])
          /\ pc' = AfterPass(Len(asked) + 1, selected)
    /\ UNCHANGED <<bank, mode, lives, cat_label, name_line, finished>>

LivesAfterAnyAnswer(is_correct, left) == left - 1

\* if not correct: lives -= 1
LivesAfter(is_correct, left) == IF is_correct THEN left ELSE left - 1

\* play_challenge up to the first question: the category prompt, the shuffle
play_challenge ==
    /\ raised = "none"
    /\ pc = "menu"
    /\ last_op' = "play_challenge"
    /\ \E loadr \in {load_questions_value(DATA_FILE)} :
        IF loadr.raised # "none"
        THEN /\ raised' = loadr.raised
             /\ prompts' = <<>>
             /\ UNCHANGED <<tracker, details, calls, questions, pool,
                            selected, call_args, session>>
        ELSE
          \E cat_line \in ChoiceLines :
          \E categories \in {get_categories(loadr.value)} :
          \E cat_idx \in {get_choice(cat_line, 1 + Len(categories), Some(1))} :
          \E category \in {IF cat_idx = 1 THEN None
                           ELSE Some(categories[cat_idx - 1])} :
          \E filtered \in {filter_questions_value(loadr.value, category,
                                                  None)} :
            IF IsEmpty(filtered)
            THEN /\ pc' = "menu"
                 /\ call_args' = [questions |-> loadr.value,
                                  category |-> category,
                                  difficulty |-> None]
                 /\ prompts' = <<Prompted(cat_line, 1 + Len(categories),
                                          Some(1), cat_idx)>>
                 /\ UNCHANGED <<tracker, details, calls, questions, pool,
                                selected, mode, lives, cat_label, asked,
                                name_line, finished, raised>>
            ELSE
              \E shuffled \in Shuffles(filtered) :
                /\ questions' = loadr.value
                /\ pool' = shuffled
                /\ call_args' = [questions |-> loadr.value,
                                 category |-> category,
                                 difficulty |-> None]
                /\ prompts' = <<Prompted(cat_line, 1 + Len(categories),
                                         Some(1), cat_idx)>>
                /\ lives' = StartLives
                /\ NewTracker
                /\ mode' = "challenge"
                /\ cat_label' = Or(category, "All Categories")
                /\ asked' = <<>>
                /\ pc' = AfterPass(0, shuffled)
                /\ UNCHANGED <<selected, name_line, finished, raised>>
    /\ UNCHANGED <<DATA_FILE, pct, files, submitted, appended, loaded>>

\* play_challenge: one pass of the loop, the player answers pool[i]
play_challenge_answer ==
    /\ pc = "question"
    /\ mode = "challenge"
    /\ \E q \in {pool[Len(asked) + 1]}, line \in AnswerLines :
       \E choice_idx \in {get_choice(line, Len(q.choices), None) - 1} :
       \E is_correct \in {check(q, choice_idx)} :
       \E left \in {LivesAfter(is_correct, lives)} :
          /\ record(is_correct, q.difficulty)
          /\ prompts' = <<Prompted(line, Len(q.choices), None,
                                   choice_idx + 1)>>
          /\ asked' = Append(asked, [id |-> q.id, line |-> line,
                                     elapsed |-> 0,
                                     choice_idx |-> choice_idx])
          /\ lives' = left
          /\ pc' = (IF left <= 0 THEN "name"
                    ELSE AfterPass(Len(asked) + 1, pool))
    /\ UNCHANGED <<bank, mode, cat_label, name_line, finished>>

\* play_quiz / play_challenge return to the menu loop of main: the locals
\* are gone; finished keeps the name typed and the tracker's final values
Return(line) ==
    /\ pc' = "menu"
    /\ finished' = Append(finished, [name |-> line, mode |-> mode,
                                     correct |-> correct, total |-> total,
                                     points |-> points,
                                     best_streak |-> best_streak])
    /\ mode' = "none"
    /\ lives' = 0
    /\ cat_label' = ""
    /\ asked' = <<>>
    /\ name_line' = <<>>
    /\ questions' = <<>>
    /\ pool' = <<>>
    /\ selected' = <<>>
    /\ call_args' = [none |-> TRUE]
    /\ prompts' = <<>>
    /\ UNCHANGED DATA_FILE

\* the name prompt; if name.strip(): save_high_score(name.strip(), ...)
enter_name ==
    /\ raised = "none"
    /\ pc = "name"
    /\ \E line \in NameLines :
        IF Strip(line) # <<>>
        THEN /\ save_high_score(Strip(line), correct, total, cat_label,
                                points, best_streak, Stamp)
             /\ name_line' = line
             /\ pc' = "save_game_history"
             /\ UNCHANGED <<bank, mode, lives, cat_label, asked, finished,
                            prompts>>
        ELSE /\ Return(line)
             /\ last_op' = "return"
             /\ UNCHANGED <<scoring, raised>>

\* save_game_history(name.strip(), ...) after save_high_score, then return
save_history ==
    /\ pc = "save_game_history"
    /\ save_game_history(Strip(name_line), correct, total, cat_label,
                         points, best_streak, Stamp)
    /\ Return(name_line)

\* main: the choices "4" to "7" show a screen, any other line but "1", "2",
\* "3", "8" is refused; the loop prompts again
main_other ==
    /\ raised = "none"
    /\ pc = "menu"
    /\ last_op' = "main"
    /\ UNCHANGED <<scoring, raised, bank, session, prompts>>

\* main: the choice "8" leaves the loop
main_quit ==
    /\ raised = "none"
    /\ pc = "menu"
    /\ last_op' = "quit"
    /\ pc' = "exit"
    /\ UNCHANGED <<scoring, raised, bank, mode, lives, cat_label, asked,
                   name_line, finished, prompts>>

\* the question file of the sessions
QuizBank ==
    <<RawEntry("q1", <<"a", "b">>, 0, "Science", "easy"),
      RawEntry("q2", <<"a", "b">>, 1, "Science", "easy"),
      RawEntry("q3", <<"a", "b", "c">>, 0, "History", "expert")>>

InitSession ==
    /\ NoCalls
    /\ data_dir = TRUE
    /\ SCORES_FILE = Missing
    /\ HISTORY_FILE = Missing
    /\ DATA_FILE \in {NoBank, BankFile(<<>>), BankFile(QuizBank)}

\* main: the menu loop, one session at a time
NextSession ==
    \/ started < MaxSessions /\ started' = started + 1 /\ play_quiz(FALSE)
    \/ started < MaxSessions /\ started' = started + 1 /\ play_quiz(TRUE)
    \/ started < MaxSessions /\ started' = started + 1 /\ play_challenge
    \/ play_quiz_answer /\ UNCHANGED started
    \/ play_challenge_answer /\ UNCHANGED started
    \/ enter_name /\ UNCHANGED started
    \/ save_history /\ UNCHANGED started
    \/ main_other /\ UNCHANGED started
    \/ main_quit /\ UNCHANGED started

SpecSession == InitSession /\ [][NextSession]_vars

\* sessions in a run of saved sessions
MaxSavedSessions == 11

\* normal sessions of one question, one after the other: the player takes
\* the defaults at the prompts, answers 1 (right) or 2 (wrong), and signs
\* " b "
NextSaved ==
    \/ /\ started < MaxSavedSessions
       /\ started' = started + 1
       /\ play_quiz(FALSE)
       /\ \A k \in 1..Len(prompts') : prompts'[k].raw = <<>>
    \/ /\ play_quiz_answer
       /\ prompts'[1].raw \in {<<"1">>, <<"2">>}
       /\ UNCHANGED started
    \/ /\ enter_name
       /\ name_line' = <<" ", "b", " ">>
       /\ UNCHANGED started
    \/ save_history /\ UNCHANGED started

SpecSaved == InitStores /\ [][NextSaved]_vars

\* a question file with more questions than a challenge has lives
ChallengeBank ==
    <<RawEntry("q1", <<"a", "b">>, 0, "Science", "easy"),
      RawEntry("q2", <<"a", "b">>, 1, "Science", "medium"),
      RawEntry("q3", <<"a", "b", "c">>, 0, "History", "hard"),
      RawEntry("q4", <<"a", "b">>, 1, "Science", "hard")>>

InitChallenge ==
    /\ NoCalls
    /\ data_dir = TRUE
    /\ SCORES_FILE = Missing
    /\ HISTORY_FILE = Missing
    /\ DATA_FILE = BankFile(ChallengeBank)

\* one challenge session from the menu to its name prompt
NextChallenge ==
    \/ play_challenge /\ UNCHANGED started
    \/ play_challenge_answer /\ UNCHANGED started

SpecChallenge == InitChallenge /\ [][NextChallenge]_vars

\* one session's tracker, long enough for a streak to pass the bonus cap
NextStreak ==
    \E is_correct \in BOOLEAN, difficulty \in StreakDifficulties :
        /\ Len(calls) < MaxStreakCalls
        /\ record(is_correct, difficulty)
        /\ UNCHANGED quiz

SpecStreak == Init /\ [][NextStreak]_vars

----------------------------------------------------------------------------
(* What the record calls made so far say, read off the log of calls *)

LastCall == calls[Len(calls)]

\* the step just taken was a record call
Recorded == Len(calls') = Len(calls) + 1

NewCall == calls'[Len(calls')]

RECURSIVE TrailingRun(_)
\* number of correct answers since the last wrong answer or the start
TrailingRun(log) ==
    IF log = <<>> THEN 0
    ELSE IF log[Len(log)].is_correct
         THEN 1 + TrailingRun(SubSeq(log, 1, Len(log) - 1))
         ELSE 0

RECURSIVE LongestRun(_)
\* length of the longest run of consecutive correct answers
LongestRun(log) ==
    IF log = <<>> THEN 0
    ELSE Max(TrailingRun(log), LongestRun(SubSeq(log, 1, Len(log) - 1)))

\* the multiplier as documented
StatedMultiplier(d) ==
    CASE d = "easy" -> 1
      [] d = "medium" -> 2
      [] d = "hard" -> 3
      [] OTHER -> 1

RECURSIVE SumCappedSteps(_)
\* sum over i in 1..n of min(i - 1, 5)
SumCappedSteps(n) == IF n = 0 THEN 0 ELSE Min(n - 1, 5) + SumCappedSteps(n - 1)

AllCorrectSameDifficulty ==
    /\ calls # <<>>
    /\ \A i \in 1..Len(calls) :
          calls[i].is_correct /\ calls[i].difficulty = calls[1].difficulty

----------------------------------------------------------------------------
(* Claims *)

\* C1: after every record call, in any sequence of calls on a fresh tracker,
\* correct <= total and streak <= best_streak.
C1_CountsOrdered ==
    /\ correct <= total
    /\ streak <= best_streak

\* C1 witness: a wrong answer after a correct one, then a new shorter streak
C1_Witness ==
    /\ Len(calls) >= 4
    /\ 0 < streak
    /\ streak < best_streak
    /\ correct < total

\* C2: record(True, difficulty) adds 1 to total, correct and streak, adds
\* earned = 10 + 10*(m-1) + 5*min(new_streak-1, 5) to points, returns exactly
\* that breakdown, with m = 1, 2, 3 for easy, medium, hard and 1 for any
\* other difficulty, and never raises; on a fresh tracker "hard" earns 30.
C2_CorrectAnswerScored ==
    [][ (Recorded /\ NewCall.is_correct) =>
          LET m == StatedMultiplier(NewCall.difficulty)
              new_streak == streak + 1
              earned == 10 + 10 * (m - 1) + 5 * Min(new_streak - 1, 5)
          IN /\ raised' = "none"
             /\ total' = total + 1
             /\ correct' = correct + 1
             /\ streak' = new_streak
             /\ points' = points + earned
             /\ details' = [difficulty_bonus |-> 10 * (m - 1),
                            streak_bonus |-> 5 * Min(new_streak - 1, 5),
                            points_earned |-> earned]
             /\ (total = 0 /\ NewCall.difficulty = "hard"
                    => details'.points_earned = 30) ]_vars

\* C2 witness: an unrecognized difficulty answered correctly in a streak
C2_Witness ==
    /\ Len(calls) = 2
    /\ calls[1] = [is_correct |-> TRUE, difficulty |-> "hard"]
    /\ calls[2] = [is_correct |-> TRUE, difficulty |-> "expert"]
    /\ points = 30 + 15
    /\ details = [difficulty_bonus |-> 0, streak_bonus |-> 5, points_earned |-> 15]

\* C3: n consecutive correct answers of one difficulty (multiplier m) on a
\* fresh tracker give the n-th answer the streak bonus 5*min(n-1, 5), that is
\* 0, 5, 10, 15, 20 for the first five, and cumulative points
\* 10*m*n + 5 * sum of min(i-1, 5) for i in 1..n; five "hard" answers give 200.
C3_ConsecutiveCorrect ==
    AllCorrectSameDifficulty =>
        LET n == Len(calls)
            m == StatedMultiplier(calls[1].difficulty)
        IN /\ details.streak_bonus = 5 * Min(n - 1, 5)
           /\ (n <= 5 => details.streak_bonus = <<0, 5, 10, 15, 20>>[n])
           /\ points = 10 * m * n + 5 * SumCappedSteps(n)
           /\ (n = 5 /\ calls[1].difficulty = "hard" => points = 200)

\* C3 witness: five correct "hard" answers in a row
C3_Witness ==
    /\ Len(calls) = 5
    /\ AllCorrectSameDifficulty
    /\ calls[1].difficulty = "hard"
    /\ details.streak_bonus = 20
    /\ points = 200

\* C4: the streak bonus returned never exceeds 25, is 5 more for each
\* consecutive correct answer beyond the first, and is exactly 25 for the
\* sixth and every later answer of a streak; points_earned never exceeds 55.
C4_StreakBonusCapped ==
    /\ details.streak_bonus <= 25
    /\ details.points_earned <= 55
    /\ (calls # <<>> /\ LastCall.is_correct) =>
          LET run == TrailingRun(calls)
          IN /\ (run <= 6 => details.streak_bonus = 5 * (run - 1))
             /\ (run >= 6 => details.streak_bonus = 25)

\* C4 witness: the seventh correct answer of a streak, on a hard question
C4_Witness ==
    /\ TrailingRun(calls) = 7
    /\ LastCall.difficulty = "hard"
    /\ details.streak_bonus = 25
    /\ details.points_earned = 55

\* C5: record(False, difficulty) sets streak to 0, adds 1 to total, leaves
\* correct, points and best_streak as they were, and returns a breakdown
\* whose three fields are 0.
C5_WrongAnswer ==
    [][ (Recorded /\ ~NewCall.is_correct) =>
          /\ streak' = 0
          /\ total' = total + 1
          /\ correct' = correct
          /\ points' = points
          /\ best_streak' = best_streak
          /\ details'.difficulty_bonus = 0
          /\ details'.streak_bonus = 0
          /\ details'.points_earned = 0 ]_vars

\* C5 witness: a wrong answer that broke a streak of two
C5_Witness ==
    /\ Len(calls) = 3
    /\ ~LastCall.is_correct
    /\ streak = 0
    /\ best_streak = 2
    /\ points > 0
    /\ details = NoDetails

\* C6: best_streak never decreases from one call to the next and equals the
\* longest run of consecutive correct answers recorded so far; streak equals
\* the number of correct answers since the last wrong answer or the start.
C6_StreakHistory ==
    /\ [][best_streak' >= best_streak]_vars
    /\ [](best_streak = LongestRun(calls) /\ streak = TrailingRun(calls))

\* C6 witness: a streak of two, a wrong answer, then one correct answer
C6_Witness ==
    /\ Len(calls) = 4
    /\ best_streak = 2
    /\ streak = 1
    /\ ~calls[3].is_correct

----------------------------------------------------------------------------
(* What the stores hold, read back from the files *)

\* the leaderboard and the history as lists of entries
Board == JsonLoad(SCORES_FILE.text)

History == JsonLoad(HISTORY_FILE.text)

Range(list) == {list[i] : i \in 1..Len(list)}

\* a list as a bag of its elements
BagOfList(list) ==
    [e \in Range(list) |-> Cardinality({i \in 1..Len(list) : list[i] = e})]

\* the ranking key as stated: points first, then percentage
StatedKey(e) == <<e.points, e.percentage>>

KeyAtMost(a, b) == a[1] < b[1] \/ (a[1] = b[1] /\ a[2] <= b[2])

\* the entries submitted to the leaderboard and no longer in it
Dropped == submitted (-) BagOfList(Board)

\* the entry the save_high_score step just taken submitted
NewSubmitted ==
    CHOOSE e \in BagToSet(submitted') :
        CopiesIn(e, submitted') = CopiesIn(e, submitted) + 1

----------------------------------------------------------------------------
(* Claims about the stores *)

\* C7: percentage returns 0 when total is 0 and correct/total*100 otherwise;
\* the percentage save_high_score and save_game_history store is 0 when
\* total is 0; none of the three divides by zero, for every tracker state
\* and every (score, total) argument pair with total >= 0.
C7_NoDivisionByZero ==
    /\ raised = "none"
    /\ last_op = "percentage" =>
          IF total = 0 THEN pct.num = 0
          ELSE pct.num * total = 100 * correct * pct.den
    /\ \A e \in Range(Board) \cup Range(History) :
          e.total = 0 => e.percentage = 0

\* C7 witness: percentage read on a tracker with no answers, after saves with
\* total = 0 and a positive score to both stores
C7_Witness ==
    /\ last_op = "percentage"
    /\ total = 0
    /\ pct.num = 0
    /\ \E e \in Range(Board) : e.total = 0 /\ e.score > 0 /\ e.percentage = 0
    /\ \E e \in Range(History) : e.total = 0 /\ e.percentage = 0

\* C8: after k save_high_score calls on a missing or empty store, the store
\* holds exactly min(k, 10) entries, in non-increasing order of
\* (points, percentage), and every submitted entry that was dropped has a key
\* less than or equal to that of every retained entry.
C8_TopTen ==
    LET k == BagCardinality(submitted)
    IN \A board \in {Board} :
          /\ Len(board) = Min(k, 10)
          /\ \A i \in 1..Len(board) - 1 :
                KeyAtMost(StatedKey(board[i + 1]), StatedKey(board[i]))
          /\ BagOfList(board) \sqsubseteq submitted
          /\ \A d \in BagToSet(submitted (-) BagOfList(board)) :
                \A i \in 1..Len(board) :
                   KeyAtMost(StatedKey(d), StatedKey(board[i]))

\* C8 witness: 11 saves; the entry of the lowest key was dropped, and a 1/1
\* entry ranks above a 2/4 entry of the same points
C8_Witness ==
    /\ BagCardinality(submitted) = 11
    /\ Len(Board) = 10
    /\ \E d \in BagToSet(Dropped) : d.points = 0
    /\ Board[10].points = 30
    /\ \E i \in 1..9 :
          /\ Board[i].points = Board[i + 1].points
          /\ Board[i].score = 1 /\ Board[i].percentage = 1000
          /\ Board[i + 1].score = 2 /\ Board[i + 1].percentage = 500

\* C9: each save_game_history call leaves every stored entry unchanged and
\* in place and adds the new entry at the end, so N appends to a missing or
\* empty store give a log of exactly N entries in insertion order, for any N.
C9_AppendOnly ==
    /\ [][ last_op' = "save_game_history" =>
             /\ Len(History') = Len(History) + 1
             /\ SubSeq(History', 1, Len(History)) = History
             /\ History'[Len(History')] = appended'[Len(appended')] ]_vars
    /\ [](Len(History) = Len(appended) /\ History = appended)

\* C9 witness: 11 appends, more than the leaderboard would keep, in an order
\* that no sort by key would leave alone
C9_Witness ==
    /\ Len(appended) = 11
    /\ Len(History) = 11
    /\ History[1].points < History[2].points
    /\ History[11].points < History[10].points

\* C10: on a missing file load_high_scores, get_top_scores and
\* load_game_history return the empty list, raise nothing and create no
\* file; the first save_high_score / save_game_history on a missing file
\* succeeds and leaves a store holding exactly the one new entry.
C10_MissingFile ==
    [][ /\ (last_op' \in {"load_high_scores", "get_top_scores"}
               /\ ~SCORES_FILE.exists) =>
              (raised' = "none" /\ loaded' = <<>> /\ files' = files)
        /\ (last_op' = "load_game_history" /\ ~HISTORY_FILE.exists) =>
              (raised' = "none" /\ loaded' = <<>> /\ files' = files)
        /\ (last_op' = "save_high_score" /\ ~SCORES_FILE.exists) =>
              /\ raised' = "none"
              /\ SCORES_FILE'.exists
              /\ Board' = <<NewSubmitted>>
        /\ (last_op' = "save_game_history" /\ ~HISTORY_FILE.exists) =>
              /\ raised' = "none"
              /\ HISTORY_FILE'.exists
              /\ History' = <<appended'[Len(appended')]>> ]_vars

\* C10 witness: the leaderboard was written once while data/history.json is
\* still missing, and a load of the history returned the empty list
C10_Witness ==
    /\ last_op = "load_game_history"
    /\ ~HISTORY_FILE.exists
    /\ loaded = <<>>
    /\ SCORES_FILE.exists
    /\ BagCardinality(submitted) = 1
    /\ Len(Board) = 1

----------------------------------------------------------------------------
(* Claims about the question store *)

\* the questions of list that are not in result, by identity
Removed(list, result) ==
    {list[i] : i \in 1..Len(list)} \ {result[i] : i \in 1..Len(result)}

\* list is result of taking the elements of from at increasing places
IsSubsequence(list, from) ==
    \E p \in [1..Len(list) -> 1..Len(from)] :
        /\ \A i \in 1..Len(list) : list[i] = from[p[i]]
        /\ \A i \in 1..Len(list) - 1 : p[i] < p[i + 1]

\* C11: pick_questions(pool, count), count >= 0, returns exactly
\* min(count, len(pool)) questions, each at a distinct place of pool, none
\* twice, and leaves pool as it was; with count > len(pool) it returns
\* len(pool) questions and does not fail.
C11_PickWithoutReplacement ==
    last_op = "pick_questions" =>
        LET qs == call_args.questions
            count == call_args.count
        IN /\ raised = "none"
           /\ Len(selected) = Min(count, Len(qs))
           /\ \E p \in [1..Len(selected) -> 1..Len(qs)] :
                 /\ \A i \in 1..Len(selected) : selected[i] = qs[p[i]]
                 /\ \A i, j \in 1..Len(selected) : i # j => p[i] # p[j]
           /\ \A i, j \in 1..Len(selected) :
                 i # j => selected[i].id # selected[j].id
           /\ pool = qs

\* C11 witness: more questions asked for than the pool of two holds, and the
\* two returned in the other order
C11_Witness ==
    /\ last_op = "pick_questions"
    /\ call_args.count > Len(pool)
    /\ Len(pool) = 2
    /\ Len(selected) = 2
    /\ selected[1] = pool[2]
    /\ selected[2] = pool[1]

\* "absent" as stated, None or "all", and as amended, None only
StatedAbsent(opt) == opt \in {None, Some("all")}

IsNone(opt) == opt = None

\* C12 as stated: a category or difficulty filter given as None or as "all"
\* removes no question: a question filter_questions left out was left out by
\* the other filter.
C12_AllIsAbsent ==
    last_op = "filter_questions" =>
        \A q \in Removed(call_args.questions, pool) :
            /\ StatedAbsent(call_args.category) =>
                  /\ ~StatedAbsent(call_args.difficulty)
                  /\ q.difficulty \notin call_args.difficulty
            /\ StatedAbsent(call_args.difficulty) =>
                  /\ ~StatedAbsent(call_args.category)
                  /\ q.category \notin call_args.category

\* C12 amended: a category or difficulty filter given as None removes no
\* question; "all" is no absent filter, it is matched exactly like any other
\* string, so it keeps the questions whose field is "all" and no others.
C12_NoneIsAbsent ==
    last_op = "filter_questions" =>
        /\ \A q \in Removed(call_args.questions, pool) :
              /\ IsNone(call_args.category) =>
                    /\ ~IsNone(call_args.difficulty)
                    /\ q.difficulty \notin call_args.difficulty
              /\ IsNone(call_args.difficulty) =>
                    /\ ~IsNone(call_args.category)
                    /\ q.category \notin call_args.category
        /\ call_args.category = Some("all") =>
              /\ \A i \in 1..Len(pool) : pool[i].category = "all"
              /\ \A q \in Removed(call_args.questions, pool) :
                    q.category # "all" \/ q.difficulty \notin call_args.difficulty
        /\ call_args.difficulty = Some("all") =>
              \A i \in 1..Len(pool) : pool[i].difficulty = "all"

\* C12 witness: category "all" with no difficulty keeps the one question of
\* category "all" and drops the other
C12_Witness ==
    /\ last_op = "filter_questions"
    /\ call_args.category = Some("all")
    /\ call_args.difficulty = None
    /\ Len(call_args.questions) = 2
    /\ Len(pool) = 1
    /\ pool[1].category = "all"

\* the questions a given category and a given difficulty select, as stated:
\* None selects all, any string selects the questions whose field equals it
StatedMatch(q, category, difficulty) ==
    /\ category = None \/ q.category \in category
    /\ difficulty = None \/ q.difficulty \in difficulty

\* C13: filter_questions(qs, None, None) returns the elements of qs in their
\* order; for a given category c and/or difficulty d it returns exactly the
\* questions of qs whose category equals c and whose difficulty equals d, in
\* their order in qs, and leaves qs as it was.
C13_ExactSubsequence ==
    last_op = "filter_questions" =>
        LET qs == call_args.questions
            c == call_args.category
            d == call_args.difficulty
        IN /\ (c = None /\ d = None) => pool = qs
           /\ IsSubsequence(pool, qs)
           /\ \A i \in 1..Len(pool) : StatedMatch(pool[i], c, d)
           /\ \A q \in Removed(qs, pool) : ~StatedMatch(q, c, d)
           /\ questions = qs

\* the entries load_questions is to keep: text, choices and answer present
\* (text and choices not empty) and answer in 0..len(choices)-1
StatedKept(e) ==
    /\ "text" \in DOMAIN e /\ e.text # ""
    /\ "choices" \in DOMAIN e /\ e.choices # <<>>
    /\ "answer" \in DOMAIN e
    /\ e.answer \in 0..Len(e.choices) - 1

C15_AtLeastTwoChoices ==
    last_op = "load_questions" =>
        \A i \in 1..Len(questions) : Len(questions[i].choices) >= 2

----------------------------------------------------------------------------
(* Claims about the sessions *)

\* the difficulties the tracker is specified for
KnownDifficulties == {"easy", "medium", "hard"}

\* C16: in every session mode (normal, timed, challenge) every difficulty
\* passed to ScoreTracker.record is one of easy, medium, hard.
C16_KnownDifficulty ==
    \A k \in 1..Len(calls) : calls[k].difficulty \in KnownDifficulties

\* a name that is empty after trimming whitespace
IsBlank(line) == \A k \in 1..Len(line) : line[k] \in {" ", "\t"}

HasName(f) == ~IsBlank(f.name)

\* the completed sessions whose player gave a name
Named == SelectSeq(finished, HasName)

\* C17: each session that ran to completion (normal, timed or challenge)
\* has appended exactly one entry to the history store and submitted exactly
\* one entry to the leaderboard if the name typed is not empty after
\* trimming, and has written to neither store otherwise; the entry's score,
\* total, points and best_streak are the tracker's final correct, total,
\* points and best_streak.
C17_OneEntryPerNamedSession ==
    pc \in {"menu", "exit", "question", "name"} =>
        /\ Len(appended) = Len(Named)
        /\ BagCardinality(submitted) = Len(Named)
        /\ Len(History) = Len(Named)
        /\ Len(Board) = Min(Len(Named), 10)
        /\ Named = <<>> => (~SCORES_FILE.exists /\ ~HISTORY_FILE.exists)
        /\ \A k \in 1..Len(Named) :
              /\ appended[k].score = Named[k].correct
              /\ appended[k].total = Named[k].total
              /\ appended[k].points = Named[k].points
              /\ appended[k].best_streak = Named[k].best_streak
              /\ History[k] = appended[k]
              /\ BagIn(appended[k], submitted)

\* C17 witness: a session of two questions ended, the player typed " b ",
\* and each store holds the one entry of "b"
C17_Witness ==
    /\ pc = "menu"
    /\ Len(finished) = 1
    /\ finished[1].name = <<" ", "b", " ">>
    /\ finished[1].total = 2
    /\ finished[1].correct = 1
    /\ Len(History) = 1
    /\ History[1].name = <<"b">>
    /\ History[1].score = 1
    /\ Len(Board) = 1

\* the list the running session asks from
Asking == IF mode = "challenge" THEN pool ELSE selected

\* C18: within a session record is invoked exactly once per asked question,
\* in the order the questions are asked, and no question is asked twice; at
\* the end of a normal or timed session tracker.total is the number of
\* selected questions, which is the chosen count and lies in 1..len(pool).
C18_OneRecordPerQuestion ==
    pc \in {"question", "name", "save_game_history"} =>
        /\ Len(calls) = Len(asked)
        /\ total = Len(asked)
        /\ Len(asked) <= Len(Asking)
        /\ \A k \in 1..Len(asked) :
              /\ asked[k].id = Asking[k].id
              /\ calls[k].difficulty = Asking[k].difficulty
        /\ \A k, m \in 1..Len(asked) : k # m => asked[k].id # asked[m].id
        /\ (pc # "question" /\ mode \in {"normal", "timed"}) =>
              /\ total = Len(selected)
              /\ Len(selected) = call_args.count
              /\ call_args.count \in 1..Len(pool)

\* C18 witness: a normal session of two questions, both asked, the second
\* of the pool first
C18_Witness ==
    /\ pc = "name"
    /\ mode = "normal"
    /\ Len(pool) = 2
    /\ call_args.count = 2
    /\ total = 2
    /\ asked[1].id = pool[2].id
    /\ asked[2].id = pool[1].id

\* C19: in timed mode an answer that took more than 15 seconds is recorded
\* as incorrect whatever the choice (streak 0, no points earned), an answer
\* that took at most 15 seconds is judged by Question.check, and each
\* recorded answer is the line the player typed: the wait is not cut short.
C19_SlowAnswerIsWrong ==
    (mode = "timed" /\ pc \in {"question", "name"}) =>
        /\ Len(calls) = Len(asked)
        /\ \A k \in 1..Len(asked) :
              /\ asked[k].line \in AnswerLines
              /\ asked[k].elapsed > 15 => ~calls[k].is_correct
              /\ asked[k].elapsed <= 15 =>
                    (calls[k].is_correct
                        <=> asked[k].choice_idx = selected[k].answer)
        /\ (asked # <<>> /\ asked[Len(asked)].elapsed > 15) =>
              /\ streak = 0
              /\ details.points_earned = 0

\* C19 witness: the right choice after 15 seconds counts, the right choice
\* after 16 seconds does not
C19_Witness ==
    /\ mode = "timed"
    /\ Len(asked) = 2
    /\ asked[1].elapsed = 15
    /\ asked[1].choice_idx = selected[1].answer
    /\ calls[1].is_correct
    /\ asked[2].elapsed = 16
    /\ asked[2].choice_idx = selected[2].answer
    /\ ~calls[2].is_correct
    /\ streak = 0
    /\ points > 0

\* C20: when no question matches the chosen category and difficulty the
\* session ends without raising, without asking a question, without a
\* record call and without a write to either store, and main is back at its
\* menu.
C20_EmptyPoolReturns ==
    [][(/\ pc = "menu"
        /\ last_op' \in {"play_quiz", "play_challenge"}
        /\ DATA_FILE.exists
        /\ "category" \in DOMAIN call_args'
        /\ \A k \in 1..Len(call_args'.questions) :
              ~StatedMatch(call_args'.questions[k], call_args'.category,
                           call_args'.difficulty))
       => /\ raised' = "none"
          /\ pc' = "menu"
          /\ asked' = <<>>
          /\ UNCHANGED <<calls, tracker, details, SCORES_FILE, HISTORY_FILE,
                         data_dir, submitted, appended, finished>>]_vars

\* C20 witness: History and easy chosen in a bank with no such question
C20_Witness ==
    /\ pc = "menu"
    /\ last_op = "play_quiz"
    /\ raised = "none"
    /\ "category" \in DOMAIN call_args
    /\ call_args.questions # <<>>
    /\ call_args.category = Some("History")
    /\ call_args.difficulty = Some("easy")
    /\ calls = <<>>

----------------------------------------------------------------------------
(* Claims about the prompts *)

\* the integer a typed line stands for, if any
Entered(line) ==
    CASE line = <<"0">> -> {0}
      [] line = <<"1">> -> {1}
      [] line \in {<<"2">>, <<" ", "2">>} -> {2}
      [] line = <<"3">> -> {3}
      [] line = <<"7">> -> {7}
      [] OTHER -> {}

\* the value get_choice is to return for a logged call
StatedChoice(c) ==
    IF \E n \in Entered(c.raw) : 1 <= n /\ n <= c.max_val
    THEN CHOOSE n \in Entered(c.raw) : TRUE
    ELSE IF c.default # {} THEN CHOOSE d \in c.default : TRUE
         ELSE 1

\* C21: get_choice returns the entered integer when it lies in 1..max_val
\* and otherwise (non-numeric, empty or out-of-range line) the default, or 1
\* when there is none, without raising; at every call in play_quiz and
\* play_challenge the value returned lies in 1..max_val.
C21_ChoiceInRange ==
    \A k \in 1..Len(prompts) :
        /\ raised = "none"
        /\ prompts[k].value = StatedChoice(prompts[k])
        /\ prompts[k].value \in 1..prompts[k].max_val

\* C21 witness: an empty line at the category prompt, 0 at the difficulty
\* prompt, and 3 at the count prompt of a pool of two give 1, 1 and the
\* default 2
C21_Witness ==
    /\ Len(prompts) = 3
    /\ prompts[1].raw = <<>>
    /\ prompts[1].value = 1
    /\ prompts[2].raw = <<"0">>
    /\ prompts[2].value = 1
    /\ prompts[3].raw = <<"3">>
    /\ prompts[3].max_val = 2
    /\ prompts[3].default = {2}
    /\ prompts[3].value = 2
    /\ Len(selected) = 2

\* C22: when data/questions.json does not exist load_questions fails
\* instead of returning questions, so starting a normal, timed or challenge
\* session ends the program: nothing runs after the failure, and neither
\* store is modified.
C22_MissingBankAborts ==
    [][/\ raised = "none"
       /\ (~DATA_FILE.exists /\ last_op' \in {"play_quiz", "play_challenge"})
             => /\ raised' = "FileNotFoundError"
                /\ questions' = <<>>
                /\ prompts' = <<>>
                /\ UNCHANGED <<SCORES_FILE, HISTORY_FILE, data_dir, submitted,
                               appended, calls, asked, finished>>]_vars

\* C22 witness: challenge mode was chosen with no question file
C22_Witness ==
    /\ ~DATA_FILE.exists
    /\ last_op = "play_challenge"
    /\ raised = "FileNotFoundError"
    /\ ~SCORES_FILE.exists
    /\ ~HISTORY_FILE.exists

\* the wrong answers recorded so far
Wrong == Cardinality({k \in 1..Len(calls) : ~calls[k].is_correct})

\* C23: a challenge session starts with 3 lives, loses exactly one life per
\* wrong answer and none per correct answer, asks no further question once
\* lives are 0 and otherwise ends when the shuffled pool is exhausted: at
\* every point lives = 3 - (total - correct), lives is in 0..3, at most 3
\* answers are wrong, and at most len(pool) questions are asked.
C23_ChallengeLives ==
    mode = "challenge" =>
        /\ lives = 3 - (total - correct)
        /\ lives = 3 - Wrong
        /\ lives \in 0..3
        /\ total = Len(asked)
        /\ Len(asked) <= Len(pool)
        /\ pc \in {"question", "name"}
        /\ pc = "question" => (lives > 0 /\ Len(asked) < Len(pool))
        /\ pc = "name" => (lives = 0 \/ Len(asked) = Len(pool))

\* C23 witness: three wrong answers end the session with a question of the
\* pool of four left unasked
C23_Witness ==
    /\ mode = "challenge"
    /\ pc = "name"
    /\ Len(pool) = 4
    /\ Len(asked) = 3
    /\ correct = 0
    /\ lives = 0

\* an answer line that is no integer in 1..len(choices)
InvalidAnswer(a, q) ==
    \A n \in Entered(a.line) : n < 1 \/ n > Len(q.choices)

\* C24 as stated: an invalid answer line (non-numeric, empty or out of
\* range) is not rejected or asked again; it is taken as choice 1 and
\* recorded correct exactly when the question's answer index is 0.
C24_InvalidIsChoiceOne ==
    pc \in {"question", "name"} =>
        /\ Len(calls) = Len(asked)
        /\ \A k \in 1..Len(asked) :
              InvalidAnswer(asked[k], Asking[k]) =>
                 /\ asked[k].id = Asking[k].id
                 /\ asked[k].choice_idx = 0
                 /\ calls[k].is_correct <=> Asking[k].answer = 0

\* C24 amended: an invalid answer line is not rejected or asked again; it is
\* taken as choice 1 and recorded correct exactly when the question's answer
\* index is 0 and, in timed mode, the answer came within the 15 seconds.
C24_InvalidIsChoiceOneInTime ==
    pc \in {"question", "name"} =>
        /\ Len(calls) = Len(asked)
        /\ \A k \in 1..Len(asked) :
              InvalidAnswer(asked[k], Asking[k]) =>
                 /\ asked[k].id = Asking[k].id
                 /\ asked[k].choice_idx = 0
                 /\ calls[k].is_correct <=>
                       /\ Asking[k].answer = 0
                       /\ ~(mode = "timed" /\ asked[k].elapsed > 15)

\* C24 witness: in a timed session "7" is typed after 15 seconds for a
\* question whose answer is the first choice, and an empty line for a
\* question whose answer is the second
C24_Witness ==
    /\ mode = "timed"
    /\ Len(asked) = 2
    /\ asked[1].line = <<"7">>
    /\ asked[1].elapsed = 15
    /\ asked[1].choice_idx = 0
    /\ selected[1].answer = 0
    /\ calls[1].is_correct
    /\ asked[2].line = <<>>
    /\ asked[2].choice_idx = 0
    /\ selected[2].answer = 1
    /\ ~calls[2].is_correct

----------------------------------------------------------------------------
(* Claims about ties on the leaderboard *)

\* the place of e in list
Pos(list, e) == CHOOSE i \in 1..Len(list) : list[i] = e

\* C25: in save_high_score entries of equal (points, percentage) keep their
\* relative order and the new entry goes behind every stored entry of the
\* same key; so on a leaderboard of 10 entries a new entry whose key equals
\* that of the 10th is dropped and the same 10 entries stay in the same order.
C25_TiesKeepOrder ==
    [][last_op' = "save_high_score" =>
        \A old \in {Board}, new \in {Board'}, e \in {NewSubmitted} :
          /\ \A i, j \in 1..Len(old) :
                (/\ i < j
                 /\ StatedKey(old[i]) = StatedKey(old[j])
                 /\ old[i] \in Range(new)
                 /\ old[j] \in Range(new))
                => Pos(new, old[i]) < Pos(new, old[j])
          /\ e \in Range(new) =>
                \A i \in 1..Len(new) :
                   (new[i] # e /\ StatedKey(new[i]) = StatedKey(e))
                   => i < Pos(new, e)
          /\ (Len(old) = 10 /\ StatedKey(e) = StatedKey(old[10]))
                => new = old]_vars

\* C25 witness: the eleventh player ties with the tenth place and is not on
\* the leaderboard, whose entries of 10 points are in the order of arrival
C25_Witness ==
    /\ last_op = "save_high_score"
    /\ BagCardinality(submitted) = 11
    /\ Len(Board) = 10
    /\ Board[10].points = 10
    /\ Board[9].points = 10
    /\ Board[9].name = "p03"
    /\ Board[10].name = "p07"
    /\ \E e \in BagToSet(submitted) :
          /\ e.name = "p11"
          /\ StatedKey(e) = StatedKey(Board[10])
          /\ e \notin Range(Board)

----------------------------------------------------------------------------
(* Claims about the two stores together *)

\* the fields a leaderboard entry shares with its history entry
SameResult(a, b) ==
    /\ a.name = b.name
    /\ a.score = b.score
    /\ a.total = b.total
    /\ a.percentage = b.percentage
    /\ a.points = b.points
    /\ a.best_streak = b.best_streak
    /\ a.category = b.category

\* C26: from stores that are missing or empty and written by completed
\* sessions only, after any sequence of sessions the leaderboard holds
\* exactly min(10, len(history)) entries and each of them agrees with an
\* entry of the history on name, score, total, percentage, points,
\* best_streak and category.
C26_BoardWithinHistory ==
    pc = "menu" =>
        /\ Len(Board) = Min(10, Len(History))
        /\ \A i \in 1..Len(Board) :
              \E j \in 1..Len(History) : SameResult(Board[i], History[j])

\* C26 witness: eleven sessions, the first lost and the last won; the
\* leaderboard of ten is led by a won session and the history starts with
\* the lost one
C26_Witness ==
    /\ pc = "menu"
    /\ Len(History) = 11
    /\ Len(Board) = 10
    /\ History[1].points = 0
    /\ History[11].points = 10
    /\ Board[1].points = 10
    /\ Board[10].points = 0

----------------------------------------------------------------------------
(* Claims about the tracker's arithmetic *)

TrackerBounds ==
    /\ best_streak <= correct
    /\ points % 5 = 0
    /\ 10 * correct <= points
    /\ points <= 55 * correct
    /\ points = 0 <=> correct = 0
    /\ calls = <<>> => points = 0

\* C27: after any sequence of record calls on a fresh tracker best_streak <=
\* correct, points is a multiple of 5, 10*correct <= points <= 55*correct,
\* points is 0 exactly when correct is 0, and points is the sum of the
\* points_earned values returned so far: each call adds the value it returns.
C27_TrackerArithmetic ==
    /\ []TrackerBounds
    /\ [][points' = points + details'.points_earned]_vars

\* C27 witness: seven hard questions answered correctly in a row, the last
\* two at the capped 55 points
C27_Witness ==
    /\ Len(calls) = 7
    /\ correct = 7
    /\ best_streak = 7
    /\ details.points_earned = 55
    /\ points = 310

====
